---- MODULE Spec2Model ----
(***************************************************************************)
(* Model of the image colour palette extractor (src/src/lib.rs): the      *)
(* PaletteExtractor object with its tuning parameters, the k-means loop    *)
(* it drives through the Calculate implementation for Rgb, the percentage  *)
(* derivation, and the palette utilities (luminance sort, RGB distance,    *)
(* near-duplicate removal).                                                *)
(*                                                                         *)
(* Numbers.  An f32 is the pair <<m, e>> standing for m * 2^e, with        *)
(* 2^23 <= |m| < 2^24, zero being <<0, 0>> and NaN being <<0, 1>>.  The     *)
(* arithmetic below rounds to nearest, ties to even, as IEEE-754 single    *)
(* precision does, and keeps every intermediate inside 32-bit integers.    *)
(* A u32 is the pair <<hi, lo>> of its 16-bit halves.                      *)
(***************************************************************************)
EXTENDS Integers, Sequences, FiniteSets, TLC

-----------------------------------------------------------------------------
(* f32 arithmetic *)

TwoTo12 == 2^12
TwoTo22 == 2^22
TwoTo23 == 2^23
TwoTo24 == 2^24

NaN == <<0, 1>>
F32Zero == <<0, 0>>

IsNaN(x) == x = NaN

\* A `let` binding: F of the value of v, v being evaluated once.
LetIn(v, F(_)) == CHOOSE r \in {F(x) : x \in {v}} : TRUE

\* m rounded up by one unit in the last place when `up`, renormalised.
F32RoundUp(m, e, up) ==
    LET m1 == IF up THEN m + 1 ELSE m
    IN  IF m1 = TwoTo24 THEN <<TwoTo23, e + 1>> ELSE <<m1, e>>

\* n more quotient bits of rem / den by long division: <<quotient, remainder>>.
RECURSIVE DivBits(_, _, _, _)
DivBits(rem, den, q, n) ==
    IF n = 0 THEN <<q, rem>>
    ELSE IF 2 * rem >= den THEN DivBits(2 * rem - den, den, 2 * q + 1, n - 1)
    ELSE DivBits(2 * rem, den, 2 * q, n - 1)

\* num / den * 2^e brought to den <= num < 2 * den, then divided to 24 bits.
RECURSIVE F32DivNorm(_, _, _)
F32DivNorm(num, den, e) ==
    IF num < den THEN F32DivNorm(2 * num, den, e - 1)
    ELSE IF num >= 2 * den THEN F32DivNorm(num, 2 * den, e + 1)
    ELSE LET qr == DivBits(num - den, den, 1, 23)
             q == qr[1]
             r == qr[2]
         IN  F32RoundUp(q, e - 23, 2 * r > den \/ (2 * r = den /\ q % 2 = 1))

\* The f32 quotient (a as f32) / (b as f32) of two integers 0 <= a, 0 < b < 2^24.
F32DivInt(a, b) == IF a = 0 THEN F32Zero ELSE F32DivNorm(a, b, 0)

\* n as f32, for 0 <= n < 2^30: exact below 2^24, rounded to 24 bits above.
F32FromInt(n) == F32DivInt(n, 1)

\* The f32 quotient a / b of a non-negative and a positive f32 value (each
\* operand taken once).
F32Div(a, b) ==
    LET Quotient(x, y) ==
            IF x[1] = 0 THEN F32Zero ELSE F32DivNorm(x[1], y[1], x[2] - y[2])
    IN  CHOOSE q \in {Quotient(x, y) : x \in {a}, y \in {b}} : TRUE

\* The f32 product of two non-negative f32 values (each operand taken once).
F32Mul(a, b) ==
    LET Product(x, y) ==
            IF IsNaN(x) \/ IsNaN(y) THEN NaN
            ELSE IF x[1] = 0 \/ y[1] = 0 THEN F32Zero
            ELSE LET a1 == x[1] \div TwoTo12
                     a0 == x[1] % TwoTo12
                     b1 == y[1] \div TwoTo12
                     b0 == y[1] % TwoTo12
                     mid == a1 * b0 + a0 * b1
                     low == a0 * b0 + (mid % TwoTo12) * TwoTo12
                     lo == low % TwoTo24
                     hi == a1 * b1 + (mid \div TwoTo12) + (low \div TwoTo24)
                     e == x[2] + y[2]
                 IN  IF hi >= TwoTo23
                     THEN F32RoundUp(hi, e + 24,
                                     lo > TwoTo23 \/ (lo = TwoTo23 /\ hi % 2 = 1))
                     ELSE LET m == 2 * hi + (lo \div TwoTo23)
                              r == lo % TwoTo23
                          IN  F32RoundUp(m, e + 23,
                                         r > TwoTo22 \/ (r = TwoTo22 /\ m % 2 = 1))
    IN  CHOOSE p \in {Product(x, y) : x \in {a}, y \in {b}} : TRUE

\* x * 8 shifted right by d bits, the bits shifted out kept as a sticky last bit.
ShiftSticky(x, d) ==
    IF d >= 27 THEN 1
    ELSE LET s == (x * 8) \div (2^d)
             lost == (x * 8) % (2^d) # 0
         IN  IF lost /\ s % 2 = 0 THEN s + 1 ELSE s

\* The f32 sum of two non-negative f32 values (each operand taken once).
F32Add(a, b) ==
    LET Sum(x, y) ==
            IF IsNaN(x) \/ IsNaN(y) THEN NaN
            ELSE IF x[1] = 0 THEN y
            ELSE IF y[1] = 0 THEN x
            ELSE LET big == IF x[2] >= y[2] THEN x ELSE y
                     small == IF x[2] >= y[2] THEN y ELSE x
                     s == big[1] * 8 + ShiftSticky(small[1], big[2] - small[2])
                 IN  IF s >= 2^27
                     THEN LET m == s \div 16
                              r == s % 16
                          IN  F32RoundUp(m, big[2] + 1,
                                         r > 8 \/ (r = 8 /\ m % 2 = 1))
                     ELSE LET m == s \div 8
                              r == s % 8
                          IN  F32RoundUp(m, big[2],
                                         r > 4 \/ (r = 4 /\ m % 2 = 1))
    IN  CHOOSE s \in {Sum(x, y) : x \in {a}, y \in {b}} : TRUE

\* The integer square root of s, found bit by bit; t is <<root so far, bit>>.
RECURSIVE ISqrtBits(_, _)
ISqrtBits(s, t) ==
    IF t[2] = 0 THEN t[1]
    ELSE LET Rest(u) == ISqrtBits(s, u)
         IN  LetIn(IF (t[1] + t[2]) * (t[1] + t[2]) <= s
                   THEN <<t[1] + t[2], t[2] \div 2>>
                   ELSE <<t[1], t[2] \div 2>>,
                   Rest)

\* Binary digits of the square root after the point, until the root has 25 bits;
\* t is <<root, remainder, number of fraction bits>>.
RECURSIVE SqrtBits(_)
SqrtBits(t) ==
    IF t[1] >= TwoTo24 THEN t
    ELSE LetIn(IF 4 * t[2] >= 4 * t[1] + 1
               THEN <<2 * t[1] + 1, 4 * t[2] - (4 * t[1] + 1), t[3] + 1>>
               ELSE <<2 * t[1], 4 * t[2], t[3] + 1>>,
               SqrtBits)

\* The f32 square root of the integer s, 0 <= s < 2^24: the integer part, then
\* the fraction digits, then the rounding of the 25-bit root to 24 bits.
F32Sqrt(s) ==
    IF s = 0 THEN F32Zero
    ELSE LET Digits(r0) == SqrtBits(<<r0, s - r0 * r0, 0>>)
             Rounded(t) ==
                 LET m == t[1] \div 2
                 IN  F32RoundUp(m, 1 - t[3],
                                t[1] % 2 = 1 /\ (t[2] # 0 \/ m % 2 = 1))
         IN  LetIn(LetIn(ISqrtBits(s, <<0, 2^11>>), Digits), Rounded)

\* a < b on f32 values (false when either is NaN; each operand taken once).
F32Lt(a, b) ==
    \E x \in {a}, y \in {b} :
        /\ ~IsNaN(x)
        /\ ~IsNaN(y)
        /\ IF x[1] >= 0 /\ y[1] <= 0 THEN FALSE
           ELSE IF x[1] <= 0 /\ y[1] >= 0 THEN x[1] < 0 \/ y[1] > 0
           ELSE IF x[1] > 0
                THEN x[2] < y[2] \/ (x[2] = y[2] /\ x[1] < y[1])
                ELSE x[2] > y[2] \/ (x[2] = y[2] /\ x[1] < y[1])

\* a <= b on f32 values (false when either is NaN).
F32Le(a, b) == \E x \in {a}, y \in {b} : ~IsNaN(x) /\ ~IsNaN(y) /\ ~F32Lt(y, x)

-----------------------------------------------------------------------------
(* u32 arithmetic: the pair <<hi, lo>> of 16-bit halves *)

TwoTo16 == 2^16

\* The 32-bit product of two 16-bit numbers, as <<hi, lo>>.
Mul16(a, b) ==
    LET p0 == a * (b % 256)
        p1 == a * (b \div 256)
        t == p0 + (p1 % 256) * 256
    IN  <<(p1 \div 256) + (t \div TwoTo16), t % TwoTo16>>

\* x * y on u32: <<overflowed, product modulo 2^32>>.
U32Mul(x, y) ==
    LET ll == Mul16(x[2], y[2])
        hl == Mul16(x[1], y[2])
        lh == Mul16(x[2], y[1])
        hh == Mul16(x[1], y[1])
        h == ll[1] + hl[2] + lh[2]
    IN  << hh # <<0, 0>> \/ hl[1] # 0 \/ lh[1] # 0 \/ h >= TwoTo16,
           <<h % TwoTo16, ll[2]>> >>

\* n as u32, for 0 <= n < 2^31.
U32FromInt(n) == <<n \div TwoTo16, n % TwoTo16>>

U32Zero == <<0, 0>>

\* Bit i (0 the lowest) of the u32 x.
U32Bit(x, i) == IF i >= 16 THEN (x[1] \div 2^(i - 16)) % 2 ELSE (x[2] \div 2^i) % 2

\* Long division of the u32 x by n from bit i down; t is <<quotient, remainder>>.
RECURSIVE U32DivBits(_, _, _, _)
U32DivBits(x, n, i, t) ==
    IF i < 0 THEN t[1]
    ELSE LET Rest(u) == U32DivBits(x, n, i - 1, u)
         IN  LetIn(IF 2 * t[2] + U32Bit(x, i) >= n
                   THEN <<2 * t[1] + 1, 2 * t[2] + U32Bit(x, i) - n>>
                   ELSE <<2 * t[1], 2 * t[2] + U32Bit(x, i)>>,
                   Rest)

\* x / n on u32, as an integer, for 0 < n < 2^30 and a quotient below 2^31.
U32Div(x, n) ==
    LET Quotient(a, b) ==
            IF a[1] = 0 THEN a[2] \div b ELSE U32DivBits(a, b, 31, <<0, 0>>)
    IN  CHOOSE q \in {Quotient(a, b) : a \in {x}, b \in {n}} : TRUE

-----------------------------------------------------------------------------
(* Bounds of the model and the inputs drawn from them *)

MaxPixels == 2
MaxK == 2
MaxIterArg == 1
MaxDomPixels == 8
MaxColors == 3
MaxAssignData == 2

SeqsUpTo(S, n) == UNION {[1..m -> S] : m \in 0..n}

RECURSIVE Flatten(_)
Flatten(ps) == IF ps = <<>> THEN <<>> ELSE Head(ps) \o Flatten(Tail(ps))

\* RGBA pixels the callers send; the alpha byte varies.
PixelVals == {<<255, 0, 0, 255>>, <<0, 0, 255, 255>>, <<100, 150, 200, 0>>}
\* Stray bytes after the last whole pixel.
TailVals == {<<>>, <<7>>, <<7, 7>>, <<7, 7, 7>>}
Buffers == {Flatten(ps) \o t : ps \in SeqsUpTo(PixelVals, MaxPixels), t \in TailVals}
KVals == 0..MaxK

\* Colours the seeded generator may hand to create_random.
SeedColours == {[r |-> 200, g |-> 10, b |-> 10], [r |-> 10, g |-> 10, b |-> 200]}

\* Widths and heights: small ones, and ones whose product leaves 32 bits.
DimVals == {<<0, 0>>, <<0, 1>>, <<0, 2>>, <<16384, 0>>, <<16384, 1>>}

F5 == <<10485760, -21>>
F100 == <<13107200, -17>>
F32Max == <<TwoTo24 - 1, 104>>
DefaultMaxIter == 20

MaxIterArgs == 0..MaxIterArg
ConvergeArgs == {F5, NaN}

-----------------------------------------------------------------------------
(* The Calculate implementation for Rgb *)

Rgb(r, g, b) == [r |-> r, g |-> g, b |-> b]

Sq(x) == x * x

difference(c1, c2) ==
    F32Sqrt(Sq(c1.r - c2.r) + Sq(c1.g - c2.g) + Sq(c1.b - c2.b))

\* The inner loop of get_closest_centroid over the centroids lo..hi (0-based),
\* entered with st = <<closest_index, min_distance>>.  A run of several
\* centroids is its first half followed by its second half (shallow for long
\* centroid lists); once min_distance is 0.0 no later distance is below it.
RECURSIVE ScanCentroids(_, _, _, _, _)
ScanCentroids(color, cs, lo, hi, st) ==
    IF lo > hi THEN st
    ELSE IF lo = hi
    THEN LET Closer(distance) ==
                 IF F32Lt(distance, st[2]) THEN <<lo, distance>> ELSE st
         IN  LetIn(difference(color, cs[lo + 1]), Closer)
    ELSE LET mid == (lo + hi) \div 2
             Rest(left) ==
                 IF left[2] = F32Zero THEN left
                 ELSE ScanCentroids(color, cs, mid + 1, hi, left)
         IN  LetIn(ScanCentroids(color, cs, lo, mid, st), Rest)

\* closest_index once every centroid has been compared
ClosestIndex(color, cs) == ScanCentroids(color, cs, 0, Len(cs) - 1, <<0, F32Max>>)[1]

\* closest_index as u8
AsU8(n) == n % 256

get_closest_centroid(data, cs, ix) ==
    ix \o [i \in 1..Len(data) |-> AsU8(ClosestIndex(data[i], cs))]

Min2(a, b) == IF a < b THEN a ELSE b

\* A buffer in which every pixel is written `times` times in a row decodes to
\* runs of equal samples.  The samples and their assignments are kept one entry
\* per run; `times` is 1 for a buffer given pixel by pixel.
Runs(samples, times) ==
    [j \in 1..Len(samples) |-> [color |-> samples[j], times |-> times]]

\* `sum += value as u32`, once for each of `times` samples; acc and the result
\* are <<overflowed, sum modulo 2^32>>, the sum as <<high, low>> 16-bit halves.
\* The additions are of non-negative numbers, so one of them overflows exactly
\* when the total leaves 32 bits (value < 2^8, times < 2^30).
AddSamples(acc, value, times) ==
    LET Halves(lo) ==
            <<acc[2][1] + value * (times \div TwoTo16) + (lo \div TwoTo16), lo>>
        Carried(t) ==
            <<acc[1] \/ t[1] >= TwoTo16, <<t[1] % TwoTo16, t[2] % TwoTo16>>>>
    IN  LetIn(LetIn(acc[2][2] + value * (times % TwoTo16), Halves), Carried)

\* The inner loop of recalculate_centroids for centroid idx (0-based) and one
\* channel, over the zipped runs from j on: sum_r, sum_g or sum_b.
RECURSIVE SumRuns(_, _, _, _, _, _)
SumRuns(data, ix, idx, ch, j, acc) ==
    IF j > Min2(Len(ix), Len(data)) THEN acc
    ELSE LET Rest(a) == SumRuns(data, ix, idx, ch, j + 1, a)
         IN  LetIn(IF ix[j] = idx
                   THEN AddSamples(acc, data[j].color[ch], data[j].times)
                   ELSE acc,
                   Rest)

\* The inner loop's `count` (a u32 that cannot overflow: the samples are fewer
\* than 2^32).
RECURSIVE CountRuns(_, _, _, _)
CountRuns(data, ix, idx, j) ==
    IF j > Min2(Len(ix), Len(data)) THEN 0
    ELSE (IF ix[j] = idx THEN data[j].times ELSE 0) + CountRuns(data, ix, idx, j + 1)

\* One round of the outer loop for centroid idx (0-based), now c:
\* <<a sum overflowed, the centroid after the round in a build that wraps>>.
RecalculateCentroid(data, ix, idx, c) ==
    LET Updated(t) ==
            << t[2][1] \/ t[3][1] \/ t[4][1],
               IF t[1] > 0
               THEN Rgb(AsU8(U32Div(t[2][2], t[1])), AsU8(U32Div(t[3][2], t[1])),
                        AsU8(U32Div(t[4][2], t[1])))
               ELSE c >>
    IN  LetIn(<<CountRuns(data, ix, idx, 1),
                SumRuns(data, ix, idx, "r", 1, <<FALSE, U32Zero>>),
                SumRuns(data, ix, idx, "g", 1, <<FALSE, U32Zero>>),
                SumRuns(data, ix, idx, "b", 1, <<FALSE, U32Zero>>)>>,
              Updated)

\* <<a sum overflowed, the centroids after the loop in a build that wraps>>
recalculate_centroids(data, cs, ix) ==
    LET Outcome(rounds) ==
            << \E idx \in 1..Len(rounds) : rounds[idx][1],
               [idx \in 1..Len(rounds) |-> rounds[idx][2]] >>
        Rounds(t) ==
            LetIn([idx \in 1..Len(t[2]) |->
                      RecalculateCentroid(t[1], t[3], idx - 1, t[2][idx])],
                  Outcome)
    IN  LetIn(<<data, cs, ix>>, Rounds)

\* The loop of check_loop over the pairs lo..hi, entered with total_diff; a run
\* of several pairs is its first half followed by its second half, and a NaN
\* total stays NaN.
RECURSIVE CheckLoopOver(_, _, _, _, _)
CheckLoopOver(cs, old, lo, hi, total_diff) ==
    IF lo > hi THEN total_diff
    ELSE IF lo = hi THEN F32Add(total_diff, difference(cs[lo], old[lo]))
    ELSE LET mid == (lo + hi) \div 2
             Rest(left) ==
                 IF IsNaN(left) THEN left
                 ELSE CheckLoopOver(cs, old, mid + 1, hi, left)
         IN  LetIn(CheckLoopOver(cs, old, lo, mid, total_diff), Rest)

\* check_loop pairing each centroid with the old centroid of the mirrored index.
check_loop_crossed(cs, old) ==
    CheckLoopOver(cs, [i \in 1..Len(old) |-> old[Len(old) + 1 - i]], 1,
                  Min2(Len(cs), Len(old)), F32Zero)

check_loop(cs, old) == CheckLoopOver(cs, old, 1, Min2(Len(cs), Len(old)), F32Zero)

create_random == SeedColours

-----------------------------------------------------------------------------
(* State *)

VARIABLES
    max_iter, converge, verbose,   \* the PaletteExtractor's fields
    pc,                            \* where the call in progress stands
    call,                          \* the request: operation and arguments
    rgb_pixels,                    \* samples decoded from the buffer, one per run
    centroids, old_centroids,      \* get_kmeans: working centroids
    indices, iterations, score,    \* get_kmeans: assignments (one per run),
                                   \* counter, last score
    kmeans_calls,                  \* times this call invoked get_kmeans
    counts,                        \* per-centroid sample counts of the fold
    result,                        \* what the call returned
    u_in, u_arg, u_out, u_again,   \* a palette utility's input, argument, outputs
    u_pc                           \* where the utility call stands

vars == <<max_iter, converge, verbose, pc, call, rgb_pixels, centroids,
          old_centroids, indices, iterations, score, kmeans_calls, counts,
          result, u_in, u_arg, u_out, u_again, u_pc>>

config == <<max_iter, converge, verbose>>
kmeans == <<centroids, old_centroids, indices, iterations, score>>
util == <<u_in, u_arg, u_out, u_again, u_pc>>

\* `repeat`: the buffer passed holds every pixel of `pixels` that many times in
\* a row (1: the buffer is `pixels` itself).
NoCall == [op |-> "none", pixels |-> <<>>, k |-> 0, repeat |-> 1,
           width |-> <<0, 0>>, height |-> <<0, 0>>, entered |-> FALSE]
NoResult == [status |-> "none", colors |-> <<>>, percentages |-> <<>>]
ErrResult == [status |-> "err", colors |-> <<>>, percentages |-> <<>>]
PanicResult == [status |-> "panic", colors |-> <<>>, percentages |-> <<>>]

\* PaletteExtractor::new(), no call in progress, no utility running.
Constructed ==
    /\ max_iter = DefaultMaxIter
    /\ converge = F5
    /\ verbose = FALSE
    /\ pc = "idle"
    /\ call = NoCall
    /\ rgb_pixels = <<>>
    /\ centroids = <<>>
    /\ old_centroids = <<>>
    /\ indices = <<>>
    /\ iterations = 0
    /\ score = F32Zero
    /\ kmeans_calls = 0
    /\ counts = <<>>
    /\ result = NoResult

UtilOff ==
    u_in = <<>> /\ u_arg = F32Zero /\ u_out = <<>> /\ u_again = <<>> /\ u_pc = "off"

Init ==
    /\ Constructed
    /\ UtilOff

-----------------------------------------------------------------------------
(* PaletteExtractor: setters *)

set_max_iterations ==
    /\ pc = "idle"
    /\ \E n \in MaxIterArgs : max_iter' = n
    /\ UNCHANGED <<converge, verbose, pc, call, rgb_pixels, kmeans, kmeans_calls,
                   counts, result, util>>

set_convergence ==
    /\ pc = "idle"
    /\ \E c \in ConvergeArgs : converge' = c
    /\ UNCHANGED <<max_iter, verbose, pc, call, rgb_pixels, kmeans, kmeans_calls,
                   counts, result, util>>

set_verbose ==
    /\ pc = "idle"
    /\ \E v \in BOOLEAN : verbose' = v
    /\ UNCHANGED <<max_iter, converge, pc, call, rgb_pixels, kmeans, kmeans_calls,
                   counts, result, util>>

-----------------------------------------------------------------------------
(* PaletteExtractor::extract_palette_from_pixels *)

\* pixels.chunks_exact(4).map(|rgba| Rgb::new(rgba[0], rgba[1], rgba[2]))
ToRgbPixels(pixels) ==
    [i \in 1..(Len(pixels) \div 4) |->
        Rgb(pixels[4 * i - 3], pixels[4 * i - 2], pixels[4 * i - 1])]

\* Rejected without its test of k.
RejectedWithoutK(pixels, k) ==
    \/ Len(pixels) % 4 # 0
    \/ ToRgbPixels(pixels) = <<>>

\* The three early returns, in the order the code takes them.
Rejected(pixels, k) ==
    \/ Len(pixels) % 4 # 0
    \/ k = 0
    \/ ToRgbPixels(pixels) = <<>>

\* The body of extract_palette_from_pixels up to the call of get_kmeans.
EnterPixels(c) ==
    /\ call' = [c EXCEPT !.entered = TRUE]
    /\ IF Rejected(c.pixels, c.k)
       THEN /\ pc' = "done"
            /\ result' = ErrResult
            /\ kmeans_calls' = 0
            /\ rgb_pixels' = <<>>
       ELSE /\ pc' = "kmeans"
            /\ result' = NoResult
            /\ kmeans_calls' = 1
            /\ rgb_pixels' = ToRgbPixels(c.pixels)
    /\ UNCHANGED <<config, kmeans, counts, util>>

extract_palette_from_pixels ==
    /\ pc = "idle"
    /\ \E pixels \in Buffers, k \in KVals :
          EnterPixels([NoCall EXCEPT !.op = "pixels", !.pixels = pixels, !.k = k])

-----------------------------------------------------------------------------
(* get_kmeans, as section 4.2 of the specification gives it *)

\* Step 1: k centroids from create_random; counter and assignments start empty.
KmCreate(seeds) ==
    /\ pc = "kmeans"
    /\ \E cs \in [1..call.k -> seeds] :
          /\ centroids' = cs
          /\ old_centroids' = cs
    /\ indices' = <<>>
    /\ iterations' = 0
    /\ score' = F32Zero
    /\ pc' = "assign"
    /\ UNCHANGED <<config, call, rgb_pixels, kmeans_calls, counts, result, util>>

KmInit == KmCreate(create_random)

\* Step 2.
KmAssign ==
    /\ pc = "assign"
    /\ indices' = get_closest_centroid(rgb_pixels, centroids, indices)
    /\ pc' = "recalc"
    /\ UNCHANGED <<config, call, rgb_pixels, centroids, old_centroids, iterations,
                   score, kmeans_calls, counts, result, util>>

\* Step 3.  A channel sum that leaves 32 bits wraps in a build without overflow
\* checks and panics in one with them; `checked` is the build.
KmRecalc ==
    /\ pc = "recalc"
    /\ \E checked \in BOOLEAN :
          \E out \in {recalculate_centroids(Runs(rgb_pixels, call.repeat),
                                            centroids, indices)} :
             IF out[1] /\ checked
             THEN /\ pc' = "done"
                  /\ result' = PanicResult
                  /\ UNCHANGED centroids
             ELSE /\ pc' = "check"
                  /\ centroids' = out[2]
                  /\ UNCHANGED result
    /\ UNCHANGED <<config, call, rgb_pixels, old_centroids, indices, iterations,
                   score, kmeans_calls, counts, util>>

\* Step 4's test: the total delta is below the threshold, or the cap is reached.
LoopStops(sc, conv, iters, cap) == F32Lt(sc, conv) \/ iters >= cap

\* Step 4.
KmCheck ==
    /\ pc = "check"
    /\ \E sc \in {check_loop(centroids, old_centroids)} :
           /\ score' = sc
           /\ IF LoopStops(sc, converge, iterations, max_iter)
              THEN /\ pc' = "final"
                   /\ UNCHANGED <<indices, iterations, old_centroids>>
              ELSE /\ pc' = "assign"
                   /\ indices' = <<>>
                   /\ iterations' = iterations + 1
                   /\ old_centroids' = centroids
    /\ UNCHANGED <<config, call, rgb_pixels, centroids, kmeans_calls, counts,
                   result, util>>

\* Step 5: the assignments returned are those against the final centroids.
KmFinal ==
    /\ pc = "final"
    /\ indices' = get_closest_centroid(rgb_pixels, centroids, <<>>)
    /\ pc' = "derive"
    /\ UNCHANGED <<config, call, rgb_pixels, centroids, old_centroids, iterations,
                   score, kmeans_calls, counts, result, util>>

-----------------------------------------------------------------------------
(* extract_palette_from_pixels, after get_kmeans returned *)

Color(r, g, b) == [r |-> r, g |-> g, b |-> b]

\* .fold(vec![0; k], |mut acc, &cluster_index| ...)
RECURSIVE CountFold(_, _, _, _)
CountFold(ix, k, i, acc) ==
    IF i > Len(ix) THEN acc
    ELSE IF ix[i] < k
         THEN CountFold(ix, k, i + 1, [acc EXCEPT ![ix[i] + 1] = @ + 1])
         ELSE CountFold(ix, k, i + 1, acc)

\* The fold over a vector only as long as the highest index seen.
CountAssignmentsUsed(ix, k) ==
    LET used == {ix[i] + 1 : i \in 1..Len(ix)}
        top == CHOOSE m \in used \cup {0} : \A x \in used : x <= m
    IN  CountFold(ix, Min2(top, k), 1, [i \in 1..Min2(top, k) |-> 0])

\* The fold with its bound test off by one: the last centroid is never counted.
CountAssignmentsShort(ix, k) ==
    [i \in 1..k |-> IF i = k THEN 0 ELSE CountFold(ix, k, 1, [j \in 1..k |-> 0])[i]]

CountAssignments(ix, k) == CountFold(ix, k, 1, [i \in 1..k |-> 0])

\* (count as f32 / total_pixels) * 100.0, total_pixels being `total as f32`
Percentage(count, total) ==
    F32Mul(F32Div(F32FromInt(count), F32FromInt(total)), F100)

\* result.get_color(0).ok_or_else(...) of extract_dominant_color
DominantOf(colors) ==
    IF Len(colors) > 0 THEN [status |-> "ok", color |-> colors[1]]
    ELSE [status |-> "err", color |-> Color(0, 0, 0)]

Derive ==
    /\ pc = "derive"
    /\ LET colors == [i \in 1..Len(centroids) |->
                         Color(centroids[i].r, centroids[i].g, centroids[i].b)]
           runs == CountAssignments(indices, call.k)
           cnt == [i \in 1..Len(runs) |-> runs[i] * call.repeat]
           pcts == [i \in 1..Len(cnt) |->
                       Percentage(cnt[i], Len(rgb_pixels) * call.repeat)]
       IN  /\ counts' = cnt
           /\ result' = IF call.op = "dominant"
                        THEN [status |-> DominantOf(colors).status,
                              colors |-> <<DominantOf(colors).color>>,
                              percentages |-> <<>>]
                        ELSE [status |-> "ok", colors |-> colors,
                              percentages |-> pcts]
    /\ pc' = "done"
    /\ UNCHANGED <<config, call, rgb_pixels, kmeans, kmeans_calls, util>>

\* The call returns to the host; its working state is dropped.
Return ==
    /\ pc = "done"
    /\ pc' = "idle"
    /\ call' = NoCall
    /\ rgb_pixels' = <<>>
    /\ centroids' = <<>>
    /\ old_centroids' = <<>>
    /\ indices' = <<>>
    /\ iterations' = 0
    /\ score' = F32Zero
    /\ kmeans_calls' = 0
    /\ counts' = <<>>
    /\ result' = NoResult
    /\ UNCHANGED <<config, util>>

-----------------------------------------------------------------------------
(* extract_palette_from_image_data and extract_dominant_color *)

U32Four == <<0, 4>>

\* (width * height * 4): <<an overflow occurred, the wrapped product>>
ExpectedLen(width, height) ==
    LET wh == U32Mul(width, height)
        whf == U32Mul(wh[2], U32Four)
    IN  <<wh[1] \/ whf[1], whf[2]>>

\* An overflowing product wraps in a build without overflow checks and panics
\* in one with them; `checked` is the build.
ImageData(image_data, width, height, k, checked) ==
    LET el == ExpectedLen(width, height)
        c == [NoCall EXCEPT !.op = "image", !.pixels = image_data, !.k = k,
                            !.width = width, !.height = height]
    IN  IF el[1] /\ checked
        THEN /\ call' = c
             /\ pc' = "done"
             /\ result' = PanicResult
             /\ UNCHANGED <<config, rgb_pixels, kmeans, kmeans_calls, counts, util>>
        ELSE IF U32FromInt(Len(image_data)) # el[2]
        THEN /\ call' = c
             /\ pc' = "done"
             /\ result' = ErrResult
             /\ UNCHANGED <<config, rgb_pixels, kmeans, kmeans_calls, counts, util>>
        ELSE EnterPixels(c)

extract_palette_from_image_data ==
    /\ pc = "idle"
    /\ \E image_data \in Buffers, width \in DimVals, height \in DimVals,
          k \in KVals, checked \in BOOLEAN :
          ImageData(image_data, width, height, k, checked)

DominantColor(bufs, repeats) ==
    /\ pc = "idle"
    /\ \E pixels \in bufs, n \in repeats :
          EnterPixels([NoCall EXCEPT !.op = "dominant", !.pixels = pixels, !.k = 1,
                                     !.repeat = n])

extract_dominant_color == DominantColor(Buffers, {1})

-----------------------------------------------------------------------------
(* The extractor: any operation when idle, then the steps of the call *)

Next ==
    \/ set_max_iterations
    \/ set_convergence
    \/ set_verbose
    \/ extract_palette_from_pixels
    \/ extract_palette_from_image_data
    \/ extract_dominant_color
    \/ KmInit
    \/ KmAssign
    \/ KmRecalc
    \/ KmCheck
    \/ KmFinal
    \/ Derive
    \/ Return

Spec == Init /\ [][Next]_vars

\* One call runs start to finish in the calling context: a step that can be
\* taken is taken.
CallStep == KmInit \/ KmAssign \/ KmRecalc \/ KmCheck \/ KmFinal \/ Derive

PixelsNext ==
    \/ set_max_iterations
    \/ set_convergence
    \/ extract_palette_from_pixels
    \/ KmInit
    \/ KmAssign
    \/ KmRecalc
    \/ KmCheck
    \/ KmFinal
    \/ Derive
    \/ Return

FairSpec == Init /\ [][PixelsNext]_vars /\ WF_vars(CallStep)

-----------------------------------------------------------------------------
(* extract_dominant_color on the buffers of the dominant-colour test *)

DomPixelVals == {<<255, 0, 0, 255>>, <<0, 255, 0, 255>>}
DomBuffers == {Flatten(ps) : ps \in SeqsUpTo(DomPixelVals, MaxDomPixels)}
DomSeedColours == {Rgb(0, 0, 0), Rgb(255, 255, 255), Rgb(190, 64, 0), Rgb(0, 255, 0)}

DomExtract == DominantColor(DomBuffers, {1})
DomKmInit == KmCreate(DomSeedColours)

DomNext ==
    \/ set_max_iterations
    \/ DomExtract
    \/ DomKmInit
    \/ KmAssign
    \/ KmRecalc
    \/ KmCheck
    \/ KmFinal
    \/ Derive
    \/ Return

SpecDominant == Init /\ [][DomNext]_vars

-----------------------------------------------------------------------------
(* extract_dominant_color on long buffers: every pixel many times over *)

\* The most samples of channel value 255 whose sum a u32 holds:
\* 255 * 16843009 = 2^32 - 1.
LongRun == 16843009

MaxLongPixels == 2

LongRepeats == {1, LongRun, LongRun + 1}
LongPixelVals == {<<255, 255, 255, 255>>, <<255, 0, 0, 255>>, <<0, 0, 0, 255>>}
LongBuffers == {Flatten(ps) : ps \in SeqsUpTo(LongPixelVals, MaxLongPixels)}

LongExtract == DominantColor(LongBuffers, LongRepeats)

LongNext ==
    \/ set_max_iterations
    \/ LongExtract
    \/ DomKmInit
    \/ KmAssign
    \/ KmRecalc
    \/ KmCheck
    \/ KmFinal
    \/ Derive
    \/ Return

SpecLong == Init /\ [][LongNext]_vars

-----------------------------------------------------------------------------
(* One assign pass, for palette sizes on both sides of the u8 range *)

IndexRange == 256

AssignColours == {Rgb(255, 0, 0), Rgb(250, 5, 5), Rgb(0, 0, 255)}
AssignKVals == (1..3) \cup {IndexRange, IndexRange + 1}

\* k centroids as create_random may draw them: one colour up to `split`, another after.
SplitCentroids(k, split, a, b) == [i \in 1..k |-> IF i <= split THEN a ELSE b]

InitAssign ==
    /\ max_iter = DefaultMaxIter
    /\ converge = F5
    /\ verbose = FALSE
    /\ \E data \in SeqsUpTo(AssignColours, MaxAssignData) \ {<<>>},
          k \in AssignKVals, a \in AssignColours, b \in AssignColours :
          \E split \in {0, 1, k - 1} :
             /\ rgb_pixels = data
             /\ call = [NoCall EXCEPT
                          !.op = "pixels", !.k = k, !.entered = TRUE,
                          !.pixels = Flatten([i \in 1..Len(data) |->
                                        <<data[i].r, data[i].g, data[i].b, 255>>])]
             /\ centroids = SplitCentroids(k, split, a, b)
             /\ old_centroids = centroids
    /\ indices = <<>>
    /\ iterations = 0
    /\ score = F32Zero
    /\ kmeans_calls = 1
    /\ counts = <<>>
    /\ result = NoResult
    /\ pc = "assign"
    /\ UtilOff

AssignNext == KmAssign \/ KmRecalc \/ KmCheck \/ KmFinal \/ Derive

SpecAssign == InitAssign /\ [][AssignNext]_vars

-----------------------------------------------------------------------------
(* Palette utilities *)

W_R == <<14267344, -26>>
W_G == <<11999065, -24>>
W_B == <<9690520, -27>>

\* 0.2126 * r + 0.7152 * g + 0.0722 * b on the channels divided by 255.0
luminance(color) ==
    LET r == F32DivInt(color.r, 255)
        g == F32DivInt(color.g, 255)
        b == F32DivInt(color.b, 255)
    IN  F32Add(F32Add(F32Mul(W_R, r), F32Mul(W_G, g)), F32Mul(W_B, b))

\* The comparison taken the other way round: b.1.partial_cmp(&a.1).
partial_cmp_reversed(x, y) ==
    IF IsNaN(x) \/ IsNaN(y) THEN "none"
    ELSE IF F32Lt(y, x) THEN "lt"
    ELSE IF F32Lt(x, y) THEN "gt"
    ELSE "eq"

\* a.1.partial_cmp(&b.1): "lt", "eq", "gt", or "none" when a NaN is compared
partial_cmp(x, y) ==
    IF IsNaN(x) \/ IsNaN(y) THEN "none"
    ELSE IF F32Lt(x, y) THEN "lt"
    ELSE IF F32Lt(y, x) THEN "gt"
    ELSE "eq"

\* A pair put into an already sorted run, after every pair not greater than it:
\* what a stable sort does with it.
RECURSIVE InsertStable(_, _)
InsertStable(sorted, p) ==
    IF sorted = <<>> THEN <<p>>
    ELSE IF partial_cmp(p[2], Head(sorted)[2]) = "lt" THEN <<p>> \o sorted
    ELSE <<Head(sorted)>> \o InsertStable(Tail(sorted), p)

RECURSIVE SortStable(_)
SortStable(pairs) ==
    IF pairs = <<>> THEN <<>>
    ELSE InsertStable(SortStable(SubSeq(pairs, 1, Len(pairs) - 1)), pairs[Len(pairs)])

sort_colors_by_luminance(colors) ==
    LET color_luminance == [i \in 1..Len(colors) |-> <<colors[i], luminance(colors[i])>>]
        sorted == SortStable(color_luminance)
    IN  [i \in 1..Len(sorted) |-> sorted[i][1]]

color_distance_rgb(color1, color2) ==
    F32Sqrt(Sq(color1.r - color2.r) + Sq(color1.g - color2.g) + Sq(color1.b - color2.b))

\* The loop of remove_similar_colors over the colours from position i on.
RECURSIVE RemoveFrom(_, _, _, _)
RemoveFrom(colors, threshold, i, res) ==
    IF i > Len(colors) THEN res
    ELSE LET color == colors[i]
             is_similar == \E j \in 1..Len(res) :
                              F32Lt(color_distance_rgb(color, res[j]), threshold)
         IN  IF ~is_similar
             THEN RemoveFrom(colors, threshold, i + 1, Append(res, color))
             ELSE RemoveFrom(colors, threshold, i + 1, res)

\* The loop comparing with <= in place of <.
RECURSIVE RemoveFromLe(_, _, _, _)
RemoveFromLe(colors, threshold, i, res) ==
    IF i > Len(colors) THEN res
    ELSE LET color == colors[i]
             is_similar == \E j \in 1..Len(res) :
                              F32Le(color_distance_rgb(color, res[j]), threshold)
         IN  IF ~is_similar
             THEN RemoveFromLe(colors, threshold, i + 1, Append(res, color))
             ELSE RemoveFromLe(colors, threshold, i + 1, res)

remove_similar_colors_le(colors, threshold) == RemoveFromLe(colors, threshold, 1, <<>>)

\* The loop removing in place and stepping over the colour after a removed one,
\* which is then kept untested.
RECURSIVE RemoveFromSkip(_, _, _, _)
RemoveFromSkip(colors, threshold, i, res) ==
    IF i > Len(colors) THEN res
    ELSE LET color == colors[i]
             is_similar == \E j \in 1..Len(res) :
                              F32Lt(color_distance_rgb(color, res[j]), threshold)
         IN  IF ~is_similar
             THEN RemoveFromSkip(colors, threshold, i + 1, Append(res, color))
             ELSE IF i + 1 <= Len(colors)
                  THEN RemoveFromSkip(colors, threshold, i + 2, Append(res, colors[i + 1]))
                  ELSE res

remove_similar_colors_skip(colors, threshold) == RemoveFromSkip(colors, threshold, 1, <<>>)

remove_similar_colors(colors, threshold) == RemoveFrom(colors, threshold, 1, <<>>)

\* Thresholds a caller may pass: 20.0, 0.0, -1.0, 500.0, NaN, and sqrt(75), the
\* exact distance between two of the colours.
F20 == <<10485760, -19>>
FMinus1 == <<-TwoTo23, -23>>
F500 == <<16384000, -15>>
Thresholds == {F20, F32Zero, FMinus1, F500, NaN, F32Sqrt(75)}

DedupColors == {Color(255, 0, 0), Color(250, 5, 5), Color(0, 0, 255), Color(0, 10, 250)}

InitDedup ==
    /\ Constructed
    /\ u_in \in SeqsUpTo(DedupColors, MaxColors)
    /\ u_arg \in Thresholds
    /\ u_out = <<>>
    /\ u_again = <<>>
    /\ u_pc = "start"

\* remove_similar_colors(colors, threshold)
RemoveSimilar ==
    /\ u_pc = "start"
    /\ u_out' = remove_similar_colors(u_in, u_arg)
    /\ u_pc' = "once"
    /\ UNCHANGED <<config, pc, call, rgb_pixels, kmeans, kmeans_calls, counts,
                   result, u_in, u_arg, u_again>>

\* remove_similar_colors(filtered, threshold) on the output of the first call
RemoveSimilarAgain ==
    /\ u_pc = "once"
    /\ u_again' = remove_similar_colors(u_out, u_arg)
    /\ u_pc' = "twice"
    /\ UNCHANGED <<config, pc, call, rgb_pixels, kmeans, kmeans_calls, counts,
                   result, u_in, u_arg, u_out>>

DedupNext == RemoveSimilar \/ RemoveSimilarAgain

SpecDedup == InitDedup /\ [][DedupNext]_vars

SortColors == {Color(255, 255, 255), Color(0, 0, 0), Color(128, 128, 128),
               Color(0, 23, 13), Color(3, 0, 232)}

InitSort ==
    /\ Constructed
    /\ u_in \in SeqsUpTo(SortColors, MaxColors)
    /\ u_arg = F32Zero
    /\ u_out = <<>>
    /\ u_again = <<>>
    /\ u_pc = "start"

\* sort_colors_by_luminance(colors)
SortByLuminance ==
    /\ u_pc = "start"
    /\ u_out' = sort_colors_by_luminance(u_in)
    /\ u_pc' = "sorted"
    /\ UNCHANGED <<config, pc, call, rgb_pixels, kmeans, kmeans_calls, counts,
                   result, u_in, u_arg, u_again>>

\* sort_colors_by_luminance on its own output
SortAgain ==
    /\ u_pc = "sorted"
    /\ u_again' = sort_colors_by_luminance(u_out)
    /\ u_pc' = "resorted"
    /\ UNCHANGED <<config, pc, call, rgb_pixels, kmeans, kmeans_calls, counts,
                   result, u_in, u_arg, u_out>>

SortNext == SortByLuminance \/ SortAgain

SpecSort == InitSort /\ [][SortNext]_vars

-----------------------------------------------------------------------------
(* Properties *)

\* A request extract_palette_from_pixels must turn down.
BadRequest(c) == Len(c.pixels) % 4 # 0 \/ c.k = 0 \/ Len(c.pixels) = 0

\* C1: whenever extract_palette_from_pixels has been entered with a buffer whose
\* length is not a multiple of 4, or with k = 0, or with an empty buffer, the
\* call is over with an error value and get_kmeans was not invoked, whatever
\* the extractor's configuration.
C1_BadRequestRejected ==
    (call.entered /\ BadRequest(call)) =>
        /\ pc = "done"
        /\ result.status = "err"
        /\ kmeans_calls = 0

\* Both faults at once, under a configuration that is not the default one.
C1_Witness ==
    /\ call.entered
    /\ Len(call.pixels) % 4 # 0
    /\ call.k = 0
    /\ verbose
    /\ max_iter # DefaultMaxIter
    /\ IsNaN(converge)
    /\ result.status = "err"

\* The number of samples assigned to centroid i (0-based) by the assignments ix.
Assigned(ix, i) == Cardinality({j \in 1..Len(ix) : ix[j] = i})

PaletteDone == pc = "done" /\ call.op \in {"pixels", "image"} /\ call.entered

\* C2: a request with at least one sample and k >= 1 succeeds, and a successful
\* extraction returns exactly k colours and k percentages, colour i being
\* centroid i; a centroid with no sample assigned has percentage exactly 0.
C2_ExactlyKEntries ==
    PaletteDone =>
        /\ ~BadRequest(call) => result.status = "ok"
        /\ result.status = "ok" =>
            /\ Len(result.colors) = call.k
            /\ Len(result.percentages) = call.k
            /\ \A i \in 1..call.k :
                /\ result.colors[i] = centroids[i]
                /\ Assigned(indices, i - 1) = 0 => result.percentages[i] = F32Zero

\* More centroids than samples: some centroid is empty and reported at 0.
C2_Witness ==
    /\ PaletteDone
    /\ result.status = "ok"
    /\ call.k > Len(rgb_pixels)
    /\ Len(result.colors) = call.k
    /\ \E i \in 1..call.k :
          Assigned(indices, i - 1) = 0 /\ result.percentages[i] = F32Zero

RECURSIVE SumSeq(_)
SumSeq(q) == IF q = <<>> THEN 0 ELSE Head(q) + SumSeq(Tail(q))

\* percentages.iter().sum() in f32
RECURSIVE F32SumSeq(_, _)
F32SumSeq(q, acc) == IF q = <<>> THEN acc ELSE F32SumSeq(Tail(q), F32Add(acc, Head(q)))

\* C3: in a successful extraction every count is non-negative and is the number
\* of samples assigned to its centroid, the counts add up to the number of
\* samples, every percentage is its count over the total times 100 and lies in
\* [0, 100], and the percentages add up to 100 within the rounding of f32
\* (between 99 and 101, the tolerance of the test suite).
C3_CountsPartitionSamples ==
    (PaletteDone /\ result.status = "ok") =>
        /\ Len(counts) = call.k
        /\ \A i \in 1..Len(counts) :
            /\ counts[i] >= 0
            /\ counts[i] = Assigned(indices, i - 1)
            /\ F32Le(F32Zero, result.percentages[i])
            /\ F32Le(result.percentages[i], F100)
            /\ (counts[i] = Len(rgb_pixels)) = (result.percentages[i] = F100)
            /\ (counts[i] = 0) = (result.percentages[i] = F32Zero)
        /\ SumSeq(counts) = Len(rgb_pixels)
        /\ F32Lt(F32FromInt(99), F32SumSeq(result.percentages, F32Zero))
        /\ F32Lt(F32SumSeq(result.percentages, F32Zero), F32FromInt(101))

\* Two centroids that each hold a sample.
C3_Witness ==
    /\ PaletteDone
    /\ result.status = "ok"
    /\ call.k = 2
    /\ counts = <<1, 1>>
    /\ result.percentages = <<F32FromInt(50), F32FromInt(50)>>

\* The mathematical-integer product width * height * 4 equals the buffer length:
\* neither multiplication leaves 32 bits and the product is the length.
DimensionsMatch(c) ==
    LET el == ExpectedLen(c.width, c.height)
    IN  ~el[1] /\ el[2] = U32FromInt(Len(c.pixels))

\* C4: extract_palette_from_image_data with a buffer whose length differs from
\* width * height * 4 ends in an error without entering
\* extract_palette_from_pixels.
C4_MismatchRejected ==
    (call.op = "image" /\ ~DimensionsMatch(call)) =>
        /\ ~call.entered
        /\ pc = "done"
        /\ result.status = "err"

\* The summed movement of the centroids in the last recompute step.
RECURSIVE Movement(_, _)
Movement(cs, old) ==
    IF cs = <<>> \/ old = <<>> THEN F32Zero
    ELSE F32Add(Movement(SubSeq(cs, 1, Len(cs) - 1), SubSeq(old, 1, Len(cs) - 1)),
                color_distance_rgb(cs[Len(cs)], old[Len(cs)]))

InLoop == pc \in {"assign", "recalc", "check"}

RECURSIVE ChannelSum(_, _, _)
ChannelSum(pixels, ch, i) ==
    IF 4 * i > Len(pixels) THEN 0
    ELSE pixels[4 * i - 4 + ch] + ChannelSum(pixels, ch, i + 1)

TruncatedMean(pixels, ch) == ChannelSum(pixels, ch, 1) \div (Len(pixels) \div 4)

PixelCount(pixels, px) ==
    Cardinality({i \in 1..(Len(pixels) \div 4) : SubSeq(pixels, 4 * i - 3, 4 * i) = px})

SixRedTwoGreen(pixels) ==
    /\ PixelCount(pixels, <<255, 0, 0, 255>>) = 6
    /\ PixelCount(pixels, <<0, 255, 0, 255>>) = 2
    /\ Len(pixels) = 32

\* C6: extract_dominant_color on a non-empty RGBA buffer succeeds and returns
\* the colour whose channels are the truncated means of the samples' channels,
\* whichever centroid create_random drew; for 6 red and 2 green pixels its red
\* channel is above 150 and above its green and blue channels.
C6_DominantIsTruncatedMean ==
    (pc = "done" /\ call.op = "dominant" /\ ~BadRequest(call)) =>
        /\ result.status = "ok"
        /\ result.colors = <<Color(TruncatedMean(call.pixels, 1),
                                   TruncatedMean(call.pixels, 2),
                                   TruncatedMean(call.pixels, 3))>>
        /\ SixRedTwoGreen(call.pixels) =>
              /\ result.colors[1].r > 150
              /\ result.colors[1].r > result.colors[1].g
              /\ result.colors[1].r > result.colors[1].b

\* The input positions in S, in order.
RECURSIVE Pick(_, _, _)
Pick(q, S, i) ==
    IF i > Len(q) THEN <<>>
    ELSE IF i \in S THEN <<q[i]>> \o Pick(q, S, i + 1)
    ELSE Pick(q, S, i + 1)

Dist(q, i, j) == color_distance_rgb(q[i], q[j])

RedNearRedBlue == <<Color(255, 0, 0), Color(250, 5, 5), Color(0, 0, 255)>>

\* C7 as claimed: the output is the input restricted to a set S of positions,
\* position i is in S exactly when its distance to every earlier position of S
\* is >= threshold; the first colour is kept, kept colours are pairwise at
\* distance >= threshold, a dropped colour is at distance < threshold from an
\* earlier kept one, and the three colours of the test leave 2.
C7_KeptIffAtLeastThreshold ==
    u_pc # "start" =>
        /\ \E S \in SUBSET (1..Len(u_in)) :
            /\ u_out = Pick(u_in, S, 1)
            /\ \A i \in 1..Len(u_in) :
                  (i \in S) = (\A j \in S : j < i => F32Le(u_arg, Dist(u_in, i, j)))
            /\ u_in # <<>> => 1 \in S
            /\ \A i \in S, j \in S : i # j => F32Le(u_arg, Dist(u_in, i, j))
            /\ \A i \in (1..Len(u_in)) \ S :
                  \E j \in S : j < i /\ F32Lt(Dist(u_in, i, j), u_arg)
        /\ (u_in = RedNearRedBlue /\ u_arg = F20) => Len(u_out) = 2

\* C7 as amended: the same, with "is >= threshold" read as "is not < threshold",
\* which is what the code tests and differs only for a NaN threshold.
C7_KeptIffNotBelowThreshold ==
    u_pc # "start" =>
        /\ \E S \in SUBSET (1..Len(u_in)) :
            /\ u_out = Pick(u_in, S, 1)
            /\ \A i \in 1..Len(u_in) :
                  (i \in S) = (\A j \in S : j < i => ~F32Lt(Dist(u_in, i, j), u_arg))
            /\ u_in # <<>> => 1 \in S
            /\ \A i \in S, j \in S : i # j => ~F32Lt(Dist(u_in, i, j), u_arg)
            /\ \A i \in (1..Len(u_in)) \ S :
                  \E j \in S : j < i /\ F32Lt(Dist(u_in, i, j), u_arg)
        /\ (u_in = RedNearRedBlue /\ u_arg = F20) => Len(u_out) = 2
        /\ ~IsNaN(u_arg) =>
              \A i \in 1..Len(u_out), j \in 1..Len(u_out) :
                  i # j => F32Le(u_arg, Dist(u_out, i, j))

\* The test's colours and threshold: the near-red is dropped.
C7_Witness ==
    /\ u_pc = "once"
    /\ u_in = RedNearRedBlue
    /\ u_arg = F20
    /\ u_out = <<Color(255, 0, 0), Color(0, 0, 255)>>

\* C8: remove_similar_colors applied to its own output with the same threshold
\* returns that output unchanged.
C8_Idempotent == u_pc = "twice" => u_again = u_out

\* A first pass that dropped colours and kept several.
C8_Witness ==
    /\ u_pc = "twice"
    /\ Len(u_out) < Len(u_in)
    /\ Len(u_out) >= 2
    /\ u_again = u_out

\* The luminance weight with the coefficients taken as exact decimals, times
\* 10000: 2126 R + 7152 G + 722 B.
ExactWeight(c) == 2126 * c.r + 7152 * c.g + 722 * c.b

Occurrences(q, c) == Cardinality({i \in 1..Len(q) : q[i] = c})

\* C9: the output of sort_colors_by_luminance holds every colour as often as
\* the input does, its luminance weights never decrease from first to last, both
\* as the code computes them in f32 and as exact numbers, and no comparison of
\* two luminances fails.
C9_SortedPermutation ==
    u_pc # "start" =>
        /\ Len(u_out) = Len(u_in)
        /\ \A i \in 1..Len(u_in) : Occurrences(u_out, u_in[i]) = Occurrences(u_in, u_in[i])
        /\ \A i \in 1..Len(u_out), j \in 1..Len(u_out) :
              /\ partial_cmp(luminance(u_out[i]), luminance(u_out[j])) # "none"
              /\ i < j => ExactWeight(u_out[i]) <= ExactWeight(u_out[j])
              /\ i < j => F32Le(luminance(u_out[i]), luminance(u_out[j]))

\* White, black, grey as in the test, out of order on input.
C9_Witness ==
    /\ u_pc = "sorted"
    /\ u_in = <<Color(255, 255, 255), Color(0, 0, 0), Color(128, 128, 128)>>
    /\ u_out = <<Color(0, 0, 0), Color(128, 128, 128), Color(255, 255, 255)>>

\* C10: after an assign pass there is one assignment per sample, each in
\* [0, k), naming the lowest-indexed centroid among those nearest the sample.
C10_AssignRecordsLowestNearest ==
    pc = "recalc" =>
        /\ Len(indices) = Len(rgb_pixels)
        /\ \A i \in 1..Len(indices) :
            /\ indices[i] \in 0..(Len(centroids) - 1)
            /\ \A j \in 1..Len(centroids) :
                LET mine == color_distance_rgb(rgb_pixels[i], centroids[indices[i] + 1])
                    other == color_distance_rgb(rgb_pixels[i], centroids[j])
                IN  IF j < indices[i] + 1 THEN F32Lt(mine, other) ELSE F32Le(mine, other)

====
